---- MODULE Spec2Model ----
(***************************************************************************)
(* market-data-downloader: the `download` command of src/main.rs.          *)
(*                                                                         *)
(* The model follows one run of download(): key resolution, the format /   *)
(* split-mode check, the page loop (request, status check, decode, sink    *)
(* write, continuation, rate-limit sleep) and the finalisation.  The HTTP  *)
(* provider and the file system are the environment.                       *)
(*                                                                         *)
(* Encodings.  Option<T> is a sequence of length 0 (None) or 1 (Some).     *)
(* A file is a sequence of tokens (records with a `tok` field): a CSV      *)
(* line or a JSON lexeme.  A path is a sequence of path components.  A Url *)
(* is a record [base, query] whose query is a sequence of <<key, value>>   *)
(* pairs in order.                                                         *)
(***************************************************************************)
EXTENDS Integers, Sequences, FiniteSets, TLC

\* ------------------------------------------------------------------ bounds

\* The provider holds at most MaxPages pages with bars or errors ...
MaxPages == 3
\* ... and at most MaxBars bars in the requested range, over all pages.
MaxBars == 3
\* The bars of a provider whose pages never end.
MaxLiveBars == 1
\* ... and by a provider whose bars go to a sink that can fail
MaxLossyBars == 2

\* The query parameters of a continuation URL handed to
\* ensure_api_key_present.
MaxQuery == 3

\* ------------------------------------------------------------ small helpers

None == <<>>
Some(x) == <<x>>
IsSome(o) == Len(o) = 1
IsNone(o) == Len(o) = 0
Get(o) == o[1]

Last(s) == s[Len(s)]
Parent(path) == SubSeq(path, 1, Len(path) - 1)

RECURSIVE SeqFilter(_, _)
\* The elements of s, in order, whose index is in the set keep.
SeqFilter(s, keep) ==
    IF s = <<>> THEN <<>>
    ELSE LET n == Len(s)
             front == SeqFilter(SubSeq(s, 1, n - 1), keep)
         IN  IF n \in keep THEN Append(front, s[n]) ELSE front

\* --------------------------------------------------------- the run's inputs

Ticker == "AAPL"
FromDate == "2025-01-02"
ToDate == "2025-01-03"
ApiKey == "KEY"
ExplicitOut == <<"custom.out">>

Providers == {"Polygon", "TwelveData"}
Formats == {"Csv", "Json"}

\* The variables of the process environment that hold a key, and the key
\* found there.
EnvVars == {"POLYGON_API_KEY", "TWELVEDATA_API_KEY"}
EnvKey == "ENVKEY"

\* DownloadArgs after clap parsing, and `env`, the key variables that are set:
\* every combination of the options without them, with and without --apikey ...
FlagArgs ==
    [provider : Providers, format : Formats, split_by_day : BOOLEAN,
     no_header : BOOLEAN, api_key : {None, Some(ApiKey)},
     out : {None, Some(ExplicitOut)}, env : {{}}]
\* ... and the runs without --apikey that find one of the variables set, with
\* the default --out and the header.
EnvArgs ==
    [provider : Providers, format : Formats, split_by_day : BOOLEAN,
     no_header : {FALSE}, api_key : {None}, out : {None},
     env : {{v} : v \in EnvVars}]
ArgsSet == FlagArgs \cup EnvArgs

\* Timestamps a provider can send: two UTC days, and a millisecond count that
\* chrono cannot represent (timestamp_millis_opt gives LocalResult::None).
Day1 == [year |-> "2025", month |-> "01", day |-> "02"]
Day2 == [year |-> "2025", month |-> "01", day |-> "03"]
TsDay1 == [date |-> Some(Day1), raw |-> "1735776000000"]
TsDay2 == [date |-> Some(Day2), raw |-> "1735862400000"]
TsOutOfRange == [date |-> None, raw |-> "9223372036854775807"]

\* Lines 130 and 337, a count out of range taken for the first day.
TimestampMillisOpt_Clamped(t) == IF IsSome(t.date) THEN t.date ELSE Some(Day1)

\* Utc.timestamp_millis_opt(ms).single()
TimestampMillisOpt(t) == t.date

fmt_ts(t) ==
    LET dt == TimestampMillisOpt(t)
    IN  IF IsSome(dt)
        THEN [formatted |-> TRUE, date |-> Get(dt), time |-> "00:00:00"]
        ELSE [formatted |-> FALSE, raw |-> t.raw]

\* Lines 144-154, the default path whatever --out says.
compute_out_path_NoOut(ticker, from, to, format, out) ==
    LET ext == IF format = "Csv" THEN "csv" ELSE "json"
    IN  <<"output", [ticker |-> ticker, from |-> from, to |-> to, ext |-> ext]>>

compute_out_path(ticker, from, to, format, out) ==
    IF IsSome(out) THEN Get(out)
    ELSE LET ext == IF format = "Csv" THEN "csv" ELSE "json"
         IN  <<"output", [ticker |-> ticker, from |-> from, to |-> to, ext |-> ext]>>

\* ----------------------------------------------------------------- Urls

HasKey(query, key) == \E i \in 1..Len(query) : query[i][1] = key

\* Lines 158-161, the key appended whether or not one is there.
ensure_api_key_present_Always(url, api_key) ==
    [url EXCEPT !.query = Append(@, <<"apiKey", api_key>>)]

ensure_api_key_present(url, api_key) ==
    IF HasKey(url.query, "apiKey") THEN url
    ELSE [url EXCEPT !.query = Append(@, <<"apiKey", api_key>>)]

PolygonInitialUrl(api_key) ==
    [base |-> "https://api.polygon.io/v2/aggs/ticker",
     query |-> << <<"adjusted", "true">>, <<"sort", "asc">>,
                  <<"limit", "50000">>, <<"apiKey", api_key>> >>]

TwelveDataInitialUrl(api_key) ==
    [base |-> "https://api.twelvedata.com/time_series",
     query |-> << <<"symbol", Ticker>>, <<"interval", "1day">>,
                  <<"start_date", FromDate>>, <<"end_date", ToDate>>,
                  <<"order", "ASC">>, <<"timezone", "UTC">>,
                  <<"format", "JSON">>, <<"outputsize", "5000">>,
                  <<"apikey", api_key>> >>]

\* Url::parse on a next_url string: a string without a scheme is a relative
\* URL without a base and does not parse.
UrlParse(s) ==
    IF s.scheme = "" THEN None
    ELSE Some([base |-> s.base, query |-> s.query])

\* Lines 490-503, the new token appended to all the pairs of the previous
\* request.
TwelveDataNextUrl_KeepAll(fetch_url, token) ==
    [fetch_url EXCEPT !.query = Append(@, <<"page_token", token>>)]

\* The next Twelve Data request: the previous request's pairs without
\* page_token / next_page_token, then the new page_token.
TwelveDataNextUrl(fetch_url, token) ==
    LET existing == fetch_url.query
        kept == SeqFilter(existing,
                    {i \in 1..Len(existing) :
                        existing[i][1] # "page_token"
                        /\ existing[i][1] # "next_page_token"})
    IN  [fetch_url EXCEPT !.query = Append(kept, <<"page_token", token>>)]

\* ------------------------------------------------- what a provider can send

\* A decimal string of a Twelve Data value: text that parses as a float, text
\* that does not, and the empty string.
NumStr(x) == [text |-> "number", num |-> Some(x)]
BadNumStr == [text |-> "abc", num |-> None]
EmptyStr == [text |-> "", num |-> None]
\* str::parse::<f64>
ParseF64(s) == s.num

\* The price that tells the bars of a run apart: bar i of page p.
PriceOf(p, i) == p * (MaxBars + 1) + i

\* Polygon's Agg objects (struct Agg): a stock bar with volume, vw and n, and
\* a bar without them whose t is out of chrono's range.
PolygonAggKinds == {"stock", "far"}
PolygonAgg(kind, x) ==
    [t  |-> IF kind = "stock" THEN TsDay1 ELSE TsOutOfRange,
     o |-> x, h |-> x, l |-> x, c |-> x,
     v  |-> IF kind = "stock" THEN Some(x) ELSE None,
     vw |-> IF kind = "stock" THEN Some(x) ELSE None,
     n  |-> IF kind = "stock" THEN Some(x) ELSE None]

\* Twelve Data's `datetime` strings: "YYYY-MM-DD HH:MM:SS", "YYYY-MM-DD", and
\* text that is neither.
DtFull(ts) == [form |-> "datetime", ts |-> ts]
DtDateOnly(ts) == [form |-> "date", ts |-> ts]
DtGarbage == [form |-> "garbage", ts |-> TsDay1]

\* NaiveDateTime::parse_from_str(s, fmt): a NaiveDateTime needs the date and
\* the time of day, so "%Y-%m-%d" yields no value for a date-only string
\* (not enough fields) nor for a full one (trailing input).
ParseNaiveDateTime(s, fmt) ==
    IF fmt = "%Y-%m-%d %H:%M:%S" /\ s.form = "datetime" THEN Some(s.ts)
    ELSE None

\* Line 313-316: the full format first, or_else the date-only format.
ParseTdDatetime(s) ==
    LET first == ParseNaiveDateTime(s, "%Y-%m-%d %H:%M:%S")
    IN  IF IsSome(first) THEN first ELSE ParseNaiveDateTime(s, "%Y-%m-%d")

\* Twelve Data's value objects (struct TDVal).
TdGoodKinds == {"full", "novol", "emptyvol"}
TdBadKinds == {"dateonly", "baddt", "badnum", "badvol"}
TdVal(kind, x) ==
    [datetime |-> CASE kind = "full" -> DtFull(TsDay1)
                    [] kind = "dateonly" -> DtDateOnly(TsDay1)
                    [] kind = "baddt" -> DtGarbage
                    [] OTHER -> DtFull(TsDay2),
     open |-> IF kind = "badnum" THEN BadNumStr ELSE NumStr(x),
     high |-> NumStr(x), low |-> NumStr(x), close |-> NumStr(x),
     volume |-> CASE kind = "novol" -> None
                  [] kind = "emptyvol" -> Some(EmptyStr)
                  [] kind = "badvol" -> Some(BadNumStr)
                  [] OTHER -> Some(NumStr(x))]

\* Sequences of length n over the set kinds.
KindSeqs(kinds, n) == [1..n -> kinds]

\* next_url strings of Polygon: no scheme (does not parse), a cursor URL
\* without apiKey, a cursor URL that carries an apiKey of its own.
NextUrlBad == [scheme |-> "", base |-> "/v2/aggs/next", query |-> <<>>]
NextUrlNoKey ==
    [scheme |-> "https", base |-> "https://api.polygon.io/v2/aggs/next",
     query |-> << <<"cursor", "c1">> >>]
NextUrlWithKey ==
    [scheme |-> "https", base |-> "https://api.polygon.io/v2/aggs/next",
     query |-> << <<"cursor", "c2">>, <<"apiKey", "OTHER">> >>]
PolygonNextUrls == {NextUrlBad, NextUrlNoKey, NextUrlWithKey}
\* The page tokens of Twelve Data: consecutive pages carry different ones.
TdToken(p) == IF p % 2 = 1 THEN "tokA" ELSE "tokB"

\* A body that is not JSON of the expected shape.
Malformed == [json |-> "malformed"]
\* The text of an error page.
ErrorText == [json |-> "text", text |-> "not entitled"]
\* Response::text().await.unwrap_or_default() of a body that cannot be read.
EmptyText == [json |-> "text", text |-> ""]

\* struct TDResp payloads that report a provider error, in either letter
\* case, with and without a message and with and without values.
TdErrorBodies(p) ==
    {[json |-> "td", status |-> Some(st), message |-> m, values |-> vs,
      next_page_token |-> None] :
        st \in {"error", "ERROR"}, m \in {None, Some("limit reached")},
        vs \in {None, Some(<<TdVal("full", PriceOf(p, 1))>>)}}

\* Pages of n values: value i is of kind ks[i].
PolygonPage(p, ks) == [i \in 1..Len(ks) |-> PolygonAgg(ks[i], PriceOf(p, i))]
TdPage(p, ks) == [i \in 1..Len(ks) |-> TdVal(ks[i], PriceOf(p, i))]

\* Twelve Data pages with one value that does not parse, at position b, among
\* values that do.
TdBadPages(p, room) ==
    UNION {{TdPage(p, [i \in 1..n |-> IF i = b THEN k ELSE "full"]) :
                b \in 1..n, k \in TdBadKinds} : n \in 1..room}

\* The bodies of page p when the provider has `room` bars left to send and
\* may (more) or may not send a continuation.
PolygonBodies(p, room, more) ==
    {Malformed}
    \cup {[json |-> "polygon", results |-> r, next_url |-> u] :
            r \in {None} \cup {Some(PolygonPage(p, ks)) :
                      ks \in UNION {KindSeqs(PolygonAggKinds, m) : m \in 0..room}},
            u \in {None} \cup (IF more THEN {Some(x) : x \in PolygonNextUrls} ELSE {})}

TwelveDataBodies(p, room, more) ==
    {Malformed}
    \cup TdErrorBodies(p)
    \cup {[json |-> "td", status |-> Some("ok"), message |-> None,
           values |-> Some(vs), next_page_token |-> None] :
            vs \in TdBadPages(p, room)}
    \cup {[json |-> "td", status |-> IF IsSome(vs) THEN Some("ok") ELSE None,
           message |-> None, values |-> vs, next_page_token |-> tk] :
            vs \in {None} \cup {Some(TdPage(p, ks)) :
                      ks \in UNION {KindSeqs(TdGoodKinds, m) : m \in 0..room}},
            tk \in {None} \cup (IF more THEN {Some(TdToken(p))} ELSE {})}

Bodies(provider, p, room, more) ==
    IF provider = "Polygon" THEN PolygonBodies(p, room, more)
    ELSE TwelveDataBodies(p, room, more)

\* What an error page carries: plain text, or a page of bars all the same.
ErrorBodies(provider, p) ==
    {ErrorText,
     IF provider = "Polygon"
     THEN [json |-> "polygon", results |-> Some(PolygonPage(p, <<"stock">>)),
           next_url |-> None]
     ELSE [json |-> "td", status |-> Some("ok"), message |-> None,
           values |-> Some(TdPage(p, <<"full">>)), next_page_token |-> None]}

StatusCodes == {200, 403, 500}
\* StatusCode::is_success
is_success(status) == status >= 200 /\ status < 300

\* ------------------------------------------------------------------ errors

NoErr == [kind |-> "none"]
\* anyhow errors, by the place that raises them.
ConfigErr(source) == [kind |-> "Config", names |-> source]
NetworkErr(url) == [kind |-> "Network", url |-> url]
EntitlementErr(text, url) ==
    [kind |-> "Entitlement", status |-> 403, text |-> text, hint |-> TRUE, url |-> url]
HttpStatusErr(status, text) ==
    [kind |-> "HttpStatus", status |-> status, text |-> text, hint |-> FALSE]
DecodeErr == [kind |-> "Decode"]
ProviderErr(msg) == [kind |-> "Provider", msg |-> msg]
ParseErr(what) == [kind |-> "Parse", what |-> what]
UrlErr == [kind |-> "Url"]
IoErr(what) == [kind |-> "Io", what |-> what]

\* ------------------------------------------------------------------ decode

\* str::eq_ignore_ascii_case(s, "error")
AsciiLower(x) == IF x = "ERROR" THEN "error" ELSE IF x = "OK" THEN "ok" ELSE x
\* Line 303, a comparison that tells the letter cases apart.
EqIgnoreAsciiCase_Exact(s, t) == s = t

EqIgnoreAsciiCase(s, t) == AsciiLower(s) = AsciiLower(t)

Decoded(rs, nx) == [ok |-> TRUE, results |-> rs, next |-> nx, err |-> NoErr]
DecodeFailed(e) == [ok |-> FALSE, results |-> <<>>, next |-> None, err |-> e]

\* Lines 274-280, a page without `results` taken for a broken one.
DecodePolygon_ResultsRequired(body) ==
    IF body.json # "polygon" \/ IsNone(body.results) THEN DecodeFailed(DecodeErr)
    ELSE Decoded(Get(body.results), body.next_url)

\* Lines 274-280.
DecodePolygon(body) ==
    IF body.json # "polygon" THEN DecodeFailed(DecodeErr)
    ELSE Decoded(IF IsSome(body.results) THEN Get(body.results) ELSE <<>>,
                 body.next_url)

\* Lines 312-323, one value: the Agg, or the error of the first `?` that fires.
TdDecodeVal(v) ==
    LET dt == ParseTdDatetime(v.datetime)
        vol == IF IsSome(v.volume) /\ Get(v.volume).text # ""
               THEN ParseF64(Get(v.volume)) ELSE None
        volFails == IsSome(v.volume) /\ Get(v.volume).text # "" /\ IsNone(vol)
    IN  IF IsNone(dt) THEN [ok |-> FALSE, err |-> ParseErr("datetime")]
        ELSE IF \E f \in {v.open, v.high, v.low, v.close} : IsNone(ParseF64(f))
             \/ volFails
        THEN [ok |-> FALSE, err |-> ParseErr("float")]
        ELSE [ok |-> TRUE,
              agg |-> [t |-> Get(dt), o |-> Get(ParseF64(v.open)),
                       h |-> Get(ParseF64(v.high)), l |-> Get(ParseF64(v.low)),
                       c |-> Get(ParseF64(v.close)), v |-> vol,
                       vw |-> None, n |-> None]]

\* Lines 309-327, the values that do not parse left out of the page.
DecodeTwelveData_SkipBad(body) ==
    IF body.json # "td" THEN DecodeFailed(DecodeErr)
    ELSE IF IsSome(body.status) /\ EqIgnoreAsciiCase(Get(body.status), "error")
    THEN DecodeFailed(ProviderErr(IF IsSome(body.message) THEN Get(body.message)
                                  ELSE "Unknown Twelve Data error"))
    ELSE LET vals == IF IsSome(body.values) THEN Get(body.values) ELSE <<>>
             ds == [i \in 1..Len(vals) |-> TdDecodeVal(vals[i])]
             good == SeqFilter(ds, {i \in 1..Len(vals) : ds[i].ok})
         IN  Decoded([i \in 1..Len(good) |-> good[i].agg], body.next_page_token)

\* Lines 302-327.
DecodeTwelveData(body) ==
    IF body.json # "td" THEN DecodeFailed(DecodeErr)
    ELSE IF IsSome(body.status) /\ EqIgnoreAsciiCase(Get(body.status), "error")
    THEN DecodeFailed(ProviderErr(IF IsSome(body.message) THEN Get(body.message)
                                  ELSE "Unknown Twelve Data error"))
    ELSE LET vals == IF IsSome(body.values) THEN Get(body.values) ELSE <<>>
             ds == [i \in 1..Len(vals) |-> TdDecodeVal(vals[i])]
             bad == {i \in 1..Len(vals) : ~ds[i].ok}
         IN  IF bad # {}
             THEN DecodeFailed(ds[CHOOSE i \in bad : \A j \in bad : i <= j].err)
             ELSE Decoded([i \in 1..Len(vals) |-> ds[i].agg], body.next_page_token)

DecodePage(provider, body) ==
    IF provider = "Polygon" THEN DecodePolygon(body) ELSE DecodeTwelveData(body)

\* ------------------------------------------------------------------- sinks

Header == [tok |-> "header"]
Open == [tok |-> "["]
Close == [tok |-> "]"]
Comma == [tok |-> ","]

\* format!("{:.1$}", x, prec) and (x * pow).round() / pow
CsvNum(x) == [fixed |-> x]
JsonNum(x) == [rounded |-> x]
\* Option::map over the two conversions
CsvOpt(o) == IF IsSome(o) THEN Some(CsvNum(Get(o))) ELSE None
JsonOpt(o) == IF IsSome(o) THEN Some(JsonNum(Get(o))) ELSE None

\* Lines 427-445 and 359-368: one CSV record; no volume is an empty field.
CsvRow(ticker, r) ==
    [tok |-> "row", ticker |-> ticker, timestamp |-> fmt_ts(r.t),
     open |-> CsvNum(r.o), high |-> CsvNum(r.h), low |-> CsvNum(r.l),
     close |-> CsvNum(r.c), volume |-> CsvOpt(r.v)]

\* Lines 458-467, an object without the keys whose value is None.
JsonObj_OmitAbsent(r) ==
    LET base == [tok |-> "obj", timestamp |-> fmt_ts(r.t),
                 open |-> JsonNum(r.o), high |-> JsonNum(r.h), low |-> JsonNum(r.l),
                 close |-> JsonNum(r.c), volume |-> JsonOpt(r.v)]
        withVw == IF IsSome(r.vw) THEN [k \in {"vw"} |-> JsonOpt(r.vw)] @@ base
                  ELSE base
    IN  IF IsSome(r.n) THEN [k \in {"n"} |-> r.n] @@ withVw ELSE withVw

\* Lines 458-467: serde_json::json!; a None serializes as null under its key.
JsonObj(r) ==
    [tok |-> "obj", timestamp |-> fmt_ts(r.t),
     open |-> JsonNum(r.o), high |-> JsonNum(r.h), low |-> JsonNum(r.l),
     close |-> JsonNum(r.c), volume |-> JsonOpt(r.v),
     vw |-> JsonOpt(r.vw), n |-> r.n]

RECURSIVE CsvRows_Reversed(_, _)
\* Lines 424-446, the batch written last bar first.
CsvRows_Reversed(ticker, rs) ==
    IF rs = <<>> THEN <<>>
    ELSE CsvRows_Reversed(ticker, Tail(rs)) \o <<CsvRow(ticker, Head(rs))>>

RECURSIVE CsvRows(_, _)
\* Lines 424-446: one record per bar of the batch, in the batch's order.
CsvRows(ticker, rs) ==
    IF rs = <<>> THEN <<>>
    ELSE <<CsvRow(ticker, Head(rs))>> \o CsvRows(ticker, Tail(rs))

RECURSIVE Flatten(_)
Flatten(ss) == IF ss = <<>> THEN <<>> ELSE Head(ss) \o Flatten(Tail(ss))

\* Line 455, a comma too few: one before every element but the first of each
\* batch.
JsonNeedsComma_PerBatch(wrote, i) == i > 0

\* Line 455, a comma before every element.
JsonNeedsComma_Always(wrote, i) == TRUE

\* Line 455: `wrote_any || i > 0`, i counting the batch's elements from 0.
JsonNeedsComma(wrote, i) == wrote \/ i > 0

\* Lines 454-470, an array closed after every batch.
JsonElems_Closing(rs, wrote) ==
    Flatten([i \in 1..Len(rs) |->
                (IF JsonNeedsComma(wrote, i - 1) THEN <<Comma>> ELSE <<>>)
                \o <<JsonObj(rs[i])>>])
    \o <<Close>>

\* Lines 454-469: the elements of one batch, each after its comma if it
\* needs one.
JsonElems(rs, wrote) ==
    Flatten([i \in 1..Len(rs) |->
                (IF JsonNeedsComma(wrote, i - 1) THEN <<Comma>> ELSE <<>>)
                \o <<JsonObj(rs[i])>>])

\* create_dir_all: the directory and its ancestors.
CreateDirAll(dirs, dir) == dirs \cup {SubSeq(dir, 1, k) : k \in 1..Len(dir)}

\* Lines 342-348, every bar sent to the file of the batch's first day.
DayFile_OneDay(ticker, d) ==
    <<"output", Day1.year, Day1.month, [ticker |-> ticker, date |-> Day1, ext |-> "csv"]>>

DayDir(d) == <<"output", d.year, d.month>>
DayFile(ticker, d) == Append(DayDir(d), [ticker |-> ticker, date |-> d, ext |-> "csv"])

\* Lines 354-358, a header before every row.
SplitHead_EveryRow(is_new, no_header) == IF ~no_header THEN <<Header>> ELSE <<>>

\* Lines 354-358: the header goes to a day file that is empty when opened.
SplitHead(is_new, no_header) == IF is_new /\ ~no_header THEN <<Header>> ELSE <<>>

\* Lines 349-353, a day file emptied when it is opened.
OpenAppend_Truncate(fls, path) == <<>>

\* Lines 349-353: OpenOptions create + append; what the file holds when the
\* bar's row is about to be added.
OpenAppend(fls, path) == IF path \in DOMAIN fls THEN fls[path] ELSE <<>>

\* A write to the sink whose error ends the run.
ok_Propagate(failed) == IF failed THEN IoErr("Cannot write") ELSE NoErr

\* `.ok()` at lines 357, 368, 400, 417, 445, 447, 456, 468, 470, 524 and 525:
\* the Result of a write to the sink, or of its flush, is dropped.
ok(failed) == NoErr

RECURSIVE Landed(_, _, _)
\* What reaches the file of the writes s[i], s[i+1], ... when those at the
\* positions in lost fail.  A write lands whole or not at all.
Landed(s, i, lost) ==
    IF i > Len(s) THEN <<>>
    ELSE (IF i \in lost THEN <<>> ELSE <<s[i]>>) \o Landed(s, i + 1, lost)

\* Lines 337-369, one bar of a split-by-day batch.  fs is [files, dirs, err];
\* fault is the file-system call that fails for this bar, if any; lost are
\* the writes to the day file that fail (1: the first writeln of the bar,
\* 2: the second, if there are two).
SplitWriteOne(fs, r, fault, no_header, lost) ==
    LET dt == TimestampMillisOpt(r.t)
    IN  IF IsNone(dt) THEN fs
        ELSE LET dir == DayDir(Get(dt))
                 file_path == DayFile(Ticker, Get(dt))
                 made == CreateDirAll(fs.dirs, dir)
                 old == OpenAppend(fs.files, file_path)
                 is_new == Len(old) = 0
                 head == SplitHead(is_new, no_header)
                 lines == head \o <<CsvRow(Ticker, r)>>
                 landed == Landed(lines, 1, lost)
             IN  CASE fault = "dir" -> [fs EXCEPT !.err = IoErr("Cannot create directory")]
                   [] fault = "open" -> [fs EXCEPT !.dirs = made, !.err = IoErr("Cannot open")]
                   [] OTHER ->
                        [fs EXCEPT !.dirs = made,
                                   !.files = (file_path :> (old \o landed)) @@ @,
                                   !.err = ok(landed # lines)]

RECURSIVE SplitWrite(_, _, _, _, _, _, _)
\* Lines 336-370: the bars from index i on, until one fails.  lost holds
\* <<j, k>> when the k-th write of bar j fails.
SplitWrite(fs, rs, i, failAt, fault, no_header, lost) ==
    IF i > Len(rs) \/ fs.err.kind # "none" THEN fs
    ELSE SplitWrite(SplitWriteOne(fs, rs[i], IF i = failAt THEN fault ELSE "none", no_header,
                                  {k \in 1..2 : <<i, k>> \in lost}),
                    rs, i + 1, failAt, fault, no_header, lost)

\* ------------------------------------------------------------------- state

VARIABLES
    args,            \* DownloadArgs
    pc,              \* where download() stands
    api_key,         \* the resolved key
    out_path,        \* compute_out_path's result
    sink,            \* enum Sink: "None", "Csv", "Json"
    wrote_any,
    page,            \* pages requested so far
    next,            \* Option<Url>: the request of the next iteration
    fetch_url,       \* Option<Url>: the request of this iteration
    resp,            \* Option: the answer to this iteration's request, until
                     \* its body is decoded
    results,         \* the bars decoded from this page
    next_from_resp,  \* Option: next_url / next_page_token of this page
    files,           \* the disk: path -> content of the files that exist
    dirs,            \* the directories created by the run
    notice,          \* Option: the closing line on stderr
    err,             \* the error download() returned, NoErr if none
    inflight,        \* requests sent and not yet answered
    delays,          \* rate-limit sleeps taken
    decoded,         \* every bar decoded so far, in order
    applied,         \* pages whose batch the sink has taken
    prior            \* the files the run found on disk when it started

vars == <<args, pc, api_key, out_path, sink, wrote_any, page, next, fetch_url,
          resp, results, next_from_resp, files, dirs, notice, err, inflight,
          delays, decoded, applied, prior>>

\* The locals of one loop iteration.
locals == <<fetch_url, results, next_from_resp>>
config == <<args, prior, api_key, out_path>>
disk == <<files, dirs>>

\* Counters are exact up to MaxPages and stay at MaxPages + 1 beyond, where
\* the provider sends empty pages only.
Inc(n) == IF n <= MaxPages THEN n + 1 ELSE n

NoFiles == [f \in {} |-> <<>>]

Init ==
    /\ args \in ArgsSet
    /\ pc = "Start"
    /\ api_key = ""
    /\ out_path = <<>>
    /\ sink = "None"
    /\ wrote_any = FALSE
    /\ page = 0
    /\ next = None
    /\ fetch_url = None
    /\ resp = None
    /\ results = <<>>
    /\ next_from_resp = None
    /\ files = NoFiles
    /\ dirs = {}
    /\ notice = None
    /\ err = NoErr
    /\ inflight = 0
    /\ delays = 0
    /\ decoded = <<>>
    /\ applied = 0
    /\ prior = NoFiles

\* `return Err(e)` / `?`: the iteration's locals are dropped.
Return(e) ==
    /\ pc' = "Failed"
    /\ err' = e
    /\ fetch_url' = None
    /\ results' = <<>>
    /\ next_from_resp' = None

\* Lines 170 and 177: the variable each provider's key is read from.
KeyVar(provider) ==
    IF provider = "Polygon" THEN "POLYGON_API_KEY" ELSE "TWELVEDATA_API_KEY"

\* env::var(name).ok()
EnvVarOk(env, name) == IF name \in env THEN Some(EnvKey) ELSE None

\* Lines 166-181, a key taken from whichever variable is set.
ResolveApiKey_AnyVar(a) ==
    IF IsSome(a.api_key) THEN a.api_key
    ELSE IF a.env # {} THEN Some(EnvKey) ELSE None

\* Lines 166-181: --apikey, or else the provider's own variable.
ResolveApiKey(a) ==
    IF IsSome(a.api_key) THEN a.api_key ELSE EnvVarOk(a.env, KeyVar(a.provider))

\* Lines 183-185, every combination let through.
Unsupported_Nothing(a) == FALSE

\* Lines 183-185: split-by-day with JSON.
Unsupported(a) == a.split_by_day /\ a.format = "Json"

\* Lines 165-245: key resolution, the split/JSON check, the first request.
Start ==
    /\ pc = "Start"
    /\ IF IsNone(ResolveApiKey(args))
       THEN /\ Return(ConfigErr(KeyVar(args.provider)))
            /\ UNCHANGED <<api_key, out_path, next>>
       ELSE IF Unsupported(args)
       THEN /\ Return(ConfigErr("--split-by-day currently supports CSV format only"))
            /\ api_key' = Get(ResolveApiKey(args))
            /\ UNCHANGED <<out_path, next>>
       ELSE /\ api_key' = Get(ResolveApiKey(args))
            /\ out_path' = compute_out_path(Ticker, FromDate, ToDate, args.format, args.out)
            /\ next' = Some(IF args.provider = "Polygon"
                            THEN PolygonInitialUrl(api_key')
                            ELSE TwelveDataInitialUrl(api_key'))
            /\ pc' = "LoopTop"
            /\ UNCHANGED <<err, locals>>
    /\ UNCHANGED <<args, prior, sink, wrote_any, page, resp, disk, notice, inflight,
                   delays, decoded, applied>>

\* Lines 248-256: take the next request and send it.
Fetch ==
    /\ pc = "LoopTop"
    /\ IF IsNone(next)
       THEN /\ pc' = "Finalize"
            /\ UNCHANGED <<page, fetch_url, inflight>>
       ELSE /\ fetch_url' = next
            /\ page' = Inc(page)
            /\ inflight' = inflight + 1
            /\ pc' = "Fetching"
    /\ next' = None
    /\ UNCHANGED <<config, sink, wrote_any, resp, results, next_from_resp, disk,
                   notice, err, delays, decoded, applied>>

\* Line 262, the wrong status.
IsForbidden_401(status) == status = 401

\* Line 262.
IsForbidden(status) == status = 403

\* Line 257, a failed request sent again.
TransportFailure_Retry ==
    /\ pc' = "LoopTop"
    /\ next' = fetch_url
    /\ fetch_url' = None
    /\ UNCHANGED <<err, results, next_from_resp>>

\* Line 257: `.send().await.with_context(..)?` when the request fails.
TransportFailure ==
    /\ Return(NetworkErr(Get(fetch_url)))
    /\ UNCHANGED next

\* Lines 257-270, given what came back: a transport failure, or a response.
Receive(outcome) ==
    /\ inflight' = inflight - 1
    /\ resp' = Some(outcome)
    /\ IF ~outcome.sent
       THEN TransportFailure
       ELSE IF ~is_success(outcome.status)
       THEN LET text == IF outcome.readable THEN outcome.body ELSE EmptyText
            IN  /\ IF IsForbidden(outcome.status)
                   THEN Return(EntitlementErr(text, Get(fetch_url)))
                   ELSE Return(HttpStatusErr(outcome.status, text))
                /\ UNCHANGED next
       ELSE /\ pc' = "Decoding"
            /\ UNCHANGED <<err, fetch_url, results, next_from_resp, next>>
    /\ UNCHANGED <<config, sink, wrote_any, page, disk, notice, delays, decoded,
                   applied>>

\* What the provider can answer to the request of page p: no answer at all
\* (the transport fails), a 2xx answer whose body arrives or breaks off, or
\* an error status.
Outcomes(p, room, more) ==
    {[sent |-> FALSE]}
    \cup {[sent |-> TRUE, status |-> 200, body |-> b, readable |-> TRUE] :
            b \in Bodies(args.provider, p, room, more)}
    \cup {[sent |-> TRUE, status |-> 200, body |-> Malformed, readable |-> FALSE]}
    \cup {[sent |-> TRUE, status |-> st, body |-> b, readable |-> rd] :
            st \in StatusCodes \ {200}, b \in ErrorBodies(args.provider, p),
            rd \in BOOLEAN}

\* The provider has a bounded range: MaxBars bars on at most MaxPages pages.
Respond ==
    /\ pc = "Fetching"
    /\ \E outcome \in Outcomes(page, MaxBars - Len(decoded), page < MaxPages) :
            Receive(outcome)

\* A provider that may go on sending continuations for ever: it holds at most
\* MaxLiveBars bars, on its first MaxPages pages, and its later pages are
\* empty.
RespondEndless ==
    /\ pc = "Fetching"
    /\ \E outcome \in Outcomes(page,
                               IF page <= MaxPages THEN MaxLiveBars - Len(decoded) ELSE 0,
                               TRUE) :
            Receive(outcome)

\* Lines 273-329: read the body and decode it.
Decode ==
    /\ pc = "Decoding"
    /\ resp' = None
    /\ LET r == Get(resp)
           d == IF r.readable THEN DecodePage(args.provider, r.body)
                ELSE DecodeFailed(DecodeErr)
       IN  IF ~d.ok
           THEN /\ Return(d.err)
                /\ UNCHANGED decoded
           ELSE /\ results' = d.results
                /\ next_from_resp' = d.next
                /\ decoded' = decoded \o d.results
                /\ pc' = "Writing"
                /\ UNCHANGED <<err, fetch_url>>
    /\ UNCHANGED <<config, sink, wrote_any, page, next, disk, notice, inflight,
                   delays, applied>>

\* Lines 331-371: the split-by-day sink.  failAt is the bar whose directory or
\* file cannot be made (0: none), fault the call that fails, lost the writes
\* to the day files that fail.
WriteSplit(failAt, fault, lost) ==
    LET fs == SplitWrite([files |-> files, dirs |-> dirs, err |-> NoErr],
                         results, 1, failAt, fault, args.no_header, lost)
    IN  /\ files' = fs.files
        /\ dirs' = fs.dirs
        /\ IF fs.err.kind # "none"
           THEN /\ Return(fs.err)
                /\ UNCHANGED <<wrote_any, applied>>
           ELSE /\ wrote_any' = (wrote_any \/ results # <<>>)
                /\ applied' = Inc(applied)
                /\ pc' = "Continuing"
                /\ UNCHANGED <<err, locals>>
        /\ UNCHANGED sink

\* Line 373, the file made anew by every batch that has bars.
Opening_EveryBatch == results # <<>>

\* Line 373, the file made by the first batch, with or without bars.
Opening_FirstPage == ~wrote_any

\* Line 373: the sink is opened by the first batch that has bars.
Opening == ~wrote_any /\ results # <<>>

\* Lines 373-474: the single-file sinks.  fault is the call that fails while
\* the sink is opened ("none": no call fails), lost the writes to the opened
\* sink that fail, counted from the header or the opening bracket.
WriteSingle(fault, lost) ==
    LET opening == Opening
        parent == Parent(out_path)
        made == IF opening /\ parent # <<>> /\ fault # "dir"
                THEN CreateDirAll(dirs, parent) ELSE dirs
        failed == opening /\ fault # "none"
        opened == IF ~opening THEN sink
                  ELSE IF args.format = "Csv" THEN "Csv" ELSE "Json"
        \* File::create truncates; then the header or the opening bracket
        fresh == IF args.format = "Csv"
                 THEN (IF args.no_header THEN <<>> ELSE <<Header>>)
                 ELSE <<Open>>
        before == IF opening THEN <<>> ELSE files[out_path]
        batch == CASE opened = "Csv" -> CsvRows(Ticker, results)
                   [] opened = "Json" -> JsonElems(results, wrote_any)
                   [] OTHER -> <<>>
        writes == (IF opening THEN fresh ELSE <<>>) \o batch
        landed == Landed(writes, 1, lost)
        werr == ok(landed # writes)
    IN  /\ fault = "dir" => opening /\ parent # <<>>
        /\ fault = "create" => opening
        /\ lost \subseteq 1..Len(writes)
        /\ dirs' = made
        /\ IF failed
           THEN /\ Return(IoErr(IF fault = "dir" THEN "Cannot create directory"
                                ELSE "Cannot create"))
                /\ UNCHANGED <<files, sink, wrote_any, applied>>
           ELSE IF werr.kind # "none"
           THEN /\ Return(werr)
                /\ files' = (out_path :> (before \o landed)) @@ files
                /\ sink' = opened
                /\ UNCHANGED <<wrote_any, applied>>
           ELSE /\ files' = IF opened = "None" THEN files
                            ELSE (out_path :> (before \o landed)) @@ files
                /\ sink' = opened
                /\ wrote_any' = (wrote_any \/ results # <<>>)
                /\ applied' = Inc(applied)
                /\ pc' = "Continuing"
                /\ UNCHANGED <<err, locals>>

\* Lines 331-475, a batch that is put aside instead of written.
Write_Deferred ==
    /\ pc = "Writing"
    /\ pc' = "Continuing"
    /\ wrote_any' = (wrote_any \/ results # <<>>)
    /\ UNCHANGED <<config, sink, page, next, locals, resp, disk, notice, err,
                   inflight, delays, decoded, applied>>

Write ==
    /\ pc = "Writing"
    /\ IF args.split_by_day
       THEN \E failAt \in 0..Len(results), fault \in {"dir", "open"} :
                WriteSplit(failAt, fault, {})
       ELSE \E fault \in {"none", "dir", "create"} : WriteSingle(fault, {})
    /\ UNCHANGED <<config, page, next, resp, notice, inflight, delays, decoded>>

\* Lines 478-506: the request of the next page, from this page's continuation.
NextRequest ==
    IF IsNone(next_from_resp) THEN [ok |-> TRUE, next |-> None]
    ELSE IF args.provider = "Polygon"
    THEN LET u == UrlParse(Get(next_from_resp))
         IN  IF IsNone(u) THEN [ok |-> FALSE, next |-> None]
             ELSE [ok |-> TRUE, next |-> Some(ensure_api_key_present(Get(u), api_key))]
    ELSE [ok |-> TRUE,
          next |-> Some(TwelveDataNextUrl(Get(fetch_url), Get(next_from_resp)))]

\* Lines 508-518, a sleep after every page.
AfterPage_AlwaysSleep(nx) == "Delaying"

\* Lines 508-518, an iteration that neither sleeps nor leaves the loop.
AfterPage_Stay(nx) == "Continuing"

\* Lines 508-518: sleep before the next page, or leave the loop.
AfterPage(nx) == IF IsSome(nx) THEN "Delaying" ELSE "Finalize"

\* Lines 478-518: build the next request; sleep if there is one, else leave
\* the loop.
Continue ==
    /\ pc = "Continuing"
    /\ LET nr == NextRequest
       IN  IF ~nr.ok
           THEN /\ Return(UrlErr)
                /\ UNCHANGED next
           ELSE /\ next' = nr.next
                /\ pc' = AfterPage(nr.next)
                /\ UNCHANGED <<err, locals>>
    /\ UNCHANGED <<config, sink, wrote_any, page, resp, disk, notice, inflight,
                   delays, decoded, applied>>

\* Line 512: the sleep ends; the iteration's locals go out of scope.
Delay ==
    /\ pc = "Delaying"
    /\ delays' = Inc(delays)
    /\ pc' = "LoopTop"
    /\ fetch_url' = None
    /\ results' = <<>>
    /\ next_from_resp' = None
    /\ UNCHANGED <<config, sink, wrote_any, page, next, resp, disk, notice, err,
                   inflight, decoded, applied>>

\* Lines 528-537, a run that always says it saved.
ClosingNotice_AlwaysSaved(wrote, split) ==
    IF split THEN "Saved per-day CSV files" ELSE "Saved to"

\* Lines 528-537: the line printed before Ok(()).
ClosingNotice(wrote, split) ==
    IF ~wrote THEN "No data returned"
    ELSE IF split THEN "Saved per-day CSV files"
    ELSE "Saved to"

\* Lines 521-539: close the JSON array, print the notice, return Ok.  lost
\* says whether the write of the bracket fails.
Closing(lost) ==
    LET writes == IF sink = "Json" THEN <<Close>> ELSE <<>>
        landed == Landed(writes, 1, lost)
        werr == ok(landed # writes)
    IN  /\ pc = "Finalize"
        /\ lost \subseteq 1..Len(writes)
        /\ files' = IF sink = "Json" THEN [files EXCEPT ![out_path] = @ \o landed]
                    ELSE files
        /\ IF werr.kind # "none"
           THEN /\ Return(werr)
                /\ UNCHANGED notice
           ELSE /\ notice' = Some(ClosingNotice(wrote_any, args.split_by_day))
                /\ pc' = "Done"
                /\ fetch_url' = None
                /\ results' = <<>>
                /\ next_from_resp' = None
                /\ UNCHANGED err
        /\ UNCHANGED <<config, sink, wrote_any, page, next, resp, dirs, inflight,
                       delays, decoded, applied>>

Finalize == Closing({})

Next ==
    \/ Start
    \/ Fetch
    \/ Respond
    \/ Decode
    \/ Write
    \/ Continue
    \/ Delay
    \/ Finalize

Spec == Init /\ [][Next]_vars

Terminal == pc \in {"Done", "Failed"}

TypeOK ==
    /\ pc \in {"Start", "LoopTop", "Fetching", "Decoding", "Writing", "Continuing",
               "Delaying", "Finalize", "Done", "Failed"}
    /\ sink \in {"None", "Csv", "Json"}
    /\ wrote_any \in BOOLEAN
    /\ page \in 0..(MaxPages + 1)
    /\ inflight \in 0..1

NextLive ==
    \/ Start
    \/ Fetch
    \/ RespondEndless
    \/ Decode
    \/ Write
    \/ Continue
    \/ Delay
    \/ Finalize

\* Every request is answered or fails, and download() is polled to its end.
LiveSpec == Init /\ [][NextLive]_vars /\ WF_vars(NextLive)

\* ------------------------------------------- a run over an earlier output

\* The first bar of the download, as either provider sends it, and what an
\* earlier run of the same download that got this bar alone has left: the
\* single output file, or the bar's day file.
FirstBar(provider) ==
    IF provider = "Polygon" THEN PolygonAgg("stock", PriceOf(1, 1))
    ELSE TdDecodeVal(TdVal("full", PriceOf(1, 1))).agg

EarlierSingle(a) ==
    IF a.format = "Csv"
    THEN (IF a.no_header THEN <<>> ELSE <<Header>>) \o <<CsvRow(Ticker, FirstBar(a.provider))>>
    ELSE <<Open, JsonObj(FirstBar(a.provider)), Close>>

EarlierDay(a) ==
    (IF a.no_header THEN <<>> ELSE <<Header>>) \o <<CsvRow(Ticker, FirstBar(a.provider))>>

\* The disks such a run can start on: the earlier run's single file; its day
\* file; or a day file that exists and is empty.
EarlierDisks(a) ==
    IF a.split_by_day
    THEN {DayFile(Ticker, Day1) :> EarlierDay(a), DayFile(Ticker, Day1) :> <<>>}
    ELSE {compute_out_path(Ticker, FromDate, ToDate, a.format, a.out) :> EarlierSingle(a)}

\* The runs with a key, the default --out and a supported combination.
AgainArgs ==
    {a \in FlagArgs : /\ IsSome(a.api_key) /\ IsNone(a.out)
                      /\ ~(a.split_by_day /\ a.format = "Json")
                      /\ a.format = "Json" => ~a.no_header}

InitAgain ==
    /\ args \in AgainArgs
    /\ prior \in EarlierDisks(args)
    /\ files = prior
    /\ dirs = UNION {CreateDirAll({}, Parent(f)) : f \in DOMAIN prior}
    /\ pc = "Start"
    /\ api_key = ""
    /\ out_path = <<>>
    /\ sink = "None"
    /\ wrote_any = FALSE
    /\ page = 0
    /\ next = None
    /\ fetch_url = None
    /\ resp = None
    /\ results = <<>>
    /\ next_from_resp = None
    /\ notice = None
    /\ err = NoErr
    /\ inflight = 0
    /\ delays = 0
    /\ decoded = <<>>
    /\ applied = 0

AgainSpec == InitAgain /\ [][Next]_vars

\* -------------------------------------------------- writes that can fail

\* The runs with a key, the default --out, the header and a supported
\* combination.
LossyArgs ==
    {a \in FlagArgs : /\ IsSome(a.api_key) /\ IsNone(a.out) /\ ~a.no_header
                      /\ ~(a.split_by_day /\ a.format = "Json")}

InitLossy == Init /\ args \in LossyArgs

\* The provider of these runs: MaxLossyBars bars on at most MaxPages pages.
RespondLossy ==
    /\ pc = "Fetching"
    /\ \E outcome \in Outcomes(page, MaxLossyBars - Len(decoded), page < MaxPages) :
            Receive(outcome)

\* Lines 331-475 when any of the writes to the sink can fail.
WriteLossy ==
    /\ pc = "Writing"
    /\ IF args.split_by_day
       THEN \E failAt \in 0..Len(results), fault \in {"dir", "open"},
               lost \in SUBSET ((1..Len(results)) \X (1..2)) :
                WriteSplit(failAt, fault, lost)
       ELSE \E fault \in {"none", "dir", "create"},
               lost \in SUBSET (1..(2 * Len(results) + 1)) :
                WriteSingle(fault, lost)
    /\ UNCHANGED <<config, page, next, resp, notice, inflight, delays, decoded>>

\* Lines 521-539 when the write of the closing bracket can fail.
FinalizeLossy == \E lost \in SUBSET {1} : Closing(lost)

NextLossy ==
    \/ Start
    \/ Fetch
    \/ RespondLossy
    \/ Decode
    \/ WriteLossy
    \/ Continue
    \/ Delay
    \/ FinalizeLossy

LossySpec == InitLossy /\ [][NextLossy]_vars

\* --------------------------------------------------- the functions alone

\* The variables of download() that a function called on its own leaves as
\* they are declared at lines 193-205.
Unused ==
    /\ sink = "None"
    /\ wrote_any = FALSE
    /\ page = 0
    /\ resp = None
    /\ results = <<>>
    /\ next_from_resp = None
    /\ files = NoFiles
    /\ dirs = {}
    /\ notice = None
    /\ err = NoErr
    /\ inflight = 0
    /\ delays = 0
    /\ decoded = <<>>
    /\ applied = 0
    /\ prior = NoFiles

\* ensure_api_key_present, called twice on one Url as at line 481: `next` is
\* the Url it works on, fetch_url keeps the Url as it was given, api_key is
\* the key of the latest call.
UrlKeys == {ApiKey, "OTHER"}
UrlPairs == {<<"cursor", "c1">>, <<"apiKey", "ABC">>, <<"apikey", "lower">>}
UrlQueries == UNION {[1..n -> UrlPairs] : n \in 0..MaxQuery}

InitUrl ==
    /\ args \in {a \in FlagArgs : a.provider = "Polygon" /\ IsNone(a.api_key)
                                   /\ a.format = "Csv" /\ ~a.split_by_day
                                   /\ ~a.no_header /\ IsNone(a.out)}
    /\ pc = "Given"
    /\ api_key = ""
    /\ out_path = <<>>
    /\ fetch_url \in {Some([base |-> NextUrlNoKey.base, query |-> q]) : q \in UrlQueries}
    /\ next = fetch_url
    /\ Unused

EnsureKey ==
    /\ pc \in {"Given", "Once"}
    /\ \E k \in UrlKeys :
            /\ api_key' = k
            /\ next' = Some(ensure_api_key_present(Get(next), k))
    /\ pc' = IF pc = "Given" THEN "Once" ELSE "Twice"
    /\ UNCHANGED <<args, prior, out_path, sink, wrote_any, page, locals, resp, disk,
                   notice, err, inflight, delays, decoded, applied>>

NextUrl == EnsureKey

UrlSpec == InitUrl /\ [][NextUrl]_vars

\* compute_out_path, called on its own as by the tests at lines 559-582: args
\* holds the arguments of the call, out_path its result.
PathTickers == {"AAPL", "I:NDX"}
PathDates == {"2025-01-01", "2025-01-31", "2024-02-01"}
PathOuts == {None, Some(<<"custom.csv">>), Some(<<"data", "custom.json">>)}
PathArgs ==
    [ticker : PathTickers, from : PathDates, to : PathDates, format : Formats,
     out : PathOuts]

InitPath ==
    /\ args \in PathArgs
    /\ pc = "Given"
    /\ api_key = ""
    /\ out_path = <<>>
    /\ next = None
    /\ fetch_url = None
    /\ Unused

ComputeOutPath ==
    /\ pc = "Given"
    /\ out_path' = compute_out_path(args.ticker, args.from, args.to, args.format,
                                    args.out)
    /\ pc' = "Returned"
    /\ UNCHANGED <<args, prior, api_key, next, sink, wrote_any, page, locals, resp, disk,
                   notice, err, inflight, delays, decoded, applied>>

NextPath == ComputeOutPath

PathSpec == InitPath /\ [][NextPath]_vars

\* ------------------------------------------------------- reading the disk

\* The page a bar came from, and the bar a row or an object was made of.
BarPage(r) == r.o \div (MaxBars + 1)
TokenPrice(t) == IF t.tok = "row" THEN t.open.fixed ELSE t.open.rounded
TokenPage(t) == TokenPrice(t) \div (MaxBars + 1)
IsBarToken(t) == t.tok \in {"row", "obj"}

\* What the sink makes of a bar.
BarToken(r) == IF args.format = "Csv" THEN CsvRow(Ticker, r) ELSE JsonObj(r)
\* The bars the sink writes: split-by-day skips those without a UTC date.
Writable(r) == ~args.split_by_day \/ IsSome(TimestampMillisOpt(r.t))
OnDisk(r) ==
    \E p \in DOMAIN files : \E j \in 1..Len(files[p]) : files[p][j] = BarToken(r)
Count(content, t) == Cardinality({j \in 1..Len(content) : content[j] = t})
BarTokens(content) == SeqFilter(content, {j \in 1..Len(content) : IsBarToken(content[j])})

\* ------------------------------------------------------------------ claims

\* C1: when the run has failed while handling page k, every bar of the pages
\* before k that the sink wrote is on disk, and when the failure is the next
\* request that cannot be built from page k's continuation, so are the bars
\* of page k.
C1_PartialProgressKept ==
    (pc = "Failed" /\ page >= 1) =>
        \A i \in 1..Len(decoded) :
            (Writable(decoded[i]) /\ (BarPage(decoded[i]) < page \/ err.kind = "Url"))
                => OnDisk(decoded[i])

\* A run that fails on the continuation of its second page, with bars of both
\* pages decoded.
C1_Witness ==
    /\ pc = "Failed" /\ err.kind = "Url" /\ page = 2
    /\ \E i, j \in 1..Len(decoded) :
            /\ BarPage(decoded[i]) = 1 /\ BarPage(decoded[j]) = 2
            /\ Writable(decoded[i]) /\ Writable(decoded[j])

\* The fields of an object of the JSON output.
JsonFields == {"tok", "timestamp", "open", "high", "low", "close", "volume", "vw", "n"}

\* [ obj , obj , ... ] with at least `least` objects: brackets at both ends,
\* objects with the declared fields at the even places, commas between them.
IsJsonArray(content, least) ==
    LET n == Len(content)
    IN  /\ n >= 2
        /\ content[1] = Open
        /\ content[n] = Close
        /\ n = 2 \/ n % 2 = 1
        /\ \A j \in 2..(n - 1) :
              IF j % 2 = 0
              THEN content[j].tok = "obj" /\ DOMAIN content[j] = JsonFields
              ELSE content[j] = Comma
        /\ Len(BarTokens(content)) >= least

C3_CloseOnlyOnSuccess ==
    (args.format = "Json" /\ out_path \in DOMAIN files) =>
        LET content == files[out_path]
        IN  /\ content[1] = Open
            /\ Count(content, Close) = (IF pc = "Done" THEN 1 ELSE 0)
            /\ pc = "Done" => Last(content) = Close

\* A JSON run that fails on a later page, the file being open.
C3_Witness ==
    /\ pc = "Failed" /\ args.format = "Json" /\ sink = "Json"
    /\ out_path \in DOMAIN files /\ page >= 2

\* C4: every CSV file of the run holds a bar, and holds the header line iff
\* --no-header is not set: then once, as its first line, whatever the number
\* of pages.
C4_CsvHeader ==
    args.format = "Csv" =>
        \A p \in DOMAIN files :
            LET content == files[p]
            IN  /\ \E j \in 1..Len(content) : content[j].tok = "row"
                /\ Count(content, Header) = (IF args.no_header THEN 0 ELSE 1)
                /\ ~args.no_header => content[1] = Header

\* A CSV file with the header and rows of two pages.
C4_Witness ==
    /\ args.format = "Csv" /\ ~args.no_header
    /\ \E p \in DOMAIN files :
          /\ files[p][1] = Header
          /\ {TokenPage(files[p][j]) : j \in 2..Len(files[p])} = {1, 2}

\* C5: in single-file mode no file and no directory exists before a page
\* with bars has been decoded, the only file ever made is out_path, and a
\* run whose pages are all empty ends in Done with the "No data returned"
\* notice; in split-by-day mode every file is the day file of a decoded bar.
C5_LazyFiles ==
    /\ ~args.split_by_day =>
          /\ decoded = <<>> => (files = NoFiles /\ dirs = {})
          /\ DOMAIN files \subseteq {out_path}
          /\ (pc = "Done" /\ decoded = <<>>) => notice = Some("No data returned")
    /\ args.split_by_day =>
          \A p \in DOMAIN files :
              \E i \in 1..Len(decoded) :
                  /\ IsSome(TimestampMillisOpt(decoded[i].t))
                  /\ p = DayFile(Ticker, Get(TimestampMillisOpt(decoded[i].t)))

\* A single-file run of several pages, all empty, that ended in Done.
C5_Witness ==
    /\ pc = "Done" /\ ~args.split_by_day /\ page >= 2
    /\ decoded = <<>> /\ files = NoFiles /\ notice = Some("No data returned")

\* C6: no sleep precedes the first request, and from then on the sleeps
\* taken are one fewer than the requests issued, except between a sleep and
\* the request it precedes; so a run that has ended after issuing requests
\* has slept once less than it has requested, and not after its last page,
\* failing or final.
C6_DelaysBetweenPages ==
    /\ page = 0 => delays = 0
    /\ page >= 1 => delays = (IF pc = "LoopTop" THEN page ELSE page - 1)

\* A run that ended in Done after three requests and two sleeps.
C6_Witness == pc = "Done" /\ page = 3 /\ delays = 2 /\ wrote_any

\* C7: an error is returned at once and ends the run: no step follows it, so
\* no request, sleep, write or finalisation does; and a request is only ever
\* sent for a new page, after the sink has taken every page before it, never
\* a second time for the same page.
C7_AbortOnFirstError ==
    /\ [](err.kind # "none" <=> pc = "Failed")
    /\ [][/\ pc # "Failed"
          /\ inflight' > inflight => (page' = page + 1 /\ applied = page)]_vars

\* A run that failed on a transport error at its second request, the first
\* page being written.
C7_Witness ==
    /\ pc = "Failed" /\ err.kind = "Network" /\ page = 2 /\ applied = 1
    /\ files # NoFiles

\* C8: at most one request is in flight, only while the run waits for it,
\* and only when the sink has taken every earlier page; a page is decoded
\* and written with no request in flight.
C8_Sequential ==
    /\ inflight \in {0, 1}
    /\ inflight = 1 <=> pc = "Fetching"
    /\ pc \in {"Fetching", "Decoding", "Writing"} => applied = page - 1
    /\ pc \in {"Continuing", "Delaying", "LoopTop", "Finalize", "Done"} => applied = page

\* The request of the third page in flight, two pages applied.
C8_Witness == inflight = 1 /\ page = 3 /\ applied = 2 /\ Len(decoded) >= 2

ErrorTextOf(r) == IF r.readable THEN r.body ELSE EmptyText

\* C10: a response is classified before its body is decoded: only a 2xx
\* answer is decoded; a transport failure, a 403 and any other status fail
\* the run with a network error, an entitlement error with the body and the
\* hints, and a status error with status and body; nothing of that page is
\* on disk, and nothing at all when it was the first page.
C10_HttpClassified ==
    /\ pc = "Decoding" => (Get(resp).sent /\ Get(resp).status \in 200..299)
    /\ IsSome(resp) /\ pc # "Decoding" =>
          LET r == Get(resp)
          IN  /\ pc = "Failed"
              /\ ~r.sent => err.kind = "Network"
              /\ r.sent =>
                    /\ r.status \notin 200..299
                    /\ err.text = ErrorTextOf(r)
                    /\ err.status = r.status
                    /\ err.kind = (IF r.status = 403 THEN "Entitlement" ELSE "HttpStatus")
                    /\ err.hint = (r.status = 403)
              /\ \A p \in DOMAIN files : \A j \in 1..Len(files[p]) :
                    IsBarToken(files[p][j]) => TokenPage(files[p][j]) < page
              /\ page = 1 => files = NoFiles

\* A 403 whose body is a page of bars, at the second request, the first page
\* being on disk.
C10_Witness ==
    /\ pc = "Failed" /\ IsSome(resp) /\ page = 2 /\ files # NoFiles
    /\ Get(resp).sent /\ Get(resp).status = 403 /\ Get(resp).readable
    /\ Get(resp).body.json # "text"
    /\ err.kind = "Entitlement"

\* The run has no key: no --apikey, and the variable of its provider is not
\* set.
NoKeyAvailable ==
    /\ IsNone(args.api_key)
    /\ args.provider = "Polygon" => "POLYGON_API_KEY" \notin args.env
    /\ args.provider = "TwelveData" => "TWELVEDATA_API_KEY" \notin args.env

\* C11: a run without a key for its provider sends no request and makes no
\* file or directory; it fails at once, with the error that names the
\* provider's own variable.
C11_MissingKeyFailsFast ==
    NoKeyAvailable =>
        /\ pc \in {"Start", "Failed"}
        /\ page = 0 /\ inflight = 0 /\ IsNone(resp)
        /\ files = NoFiles /\ dirs = {}
        /\ pc = "Failed" =>
              /\ err.kind = "Config"
              /\ err.names = (IF args.provider = "Polygon" THEN "POLYGON_API_KEY"
                              ELSE "TWELVEDATA_API_KEY")

\* A Polygon run has failed for want of a key while the variable of the
\* other provider is set.
C11_Witness ==
    /\ NoKeyAvailable /\ pc = "Failed"
    /\ args.provider = "Polygon" /\ args.env = {"TWELVEDATA_API_KEY"}

\* C12: a run with split-by-day and JSON sends no request and makes no file
\* or directory; it fails at once, and with a key at hand the error is the
\* unsupported combination.
C12_SplitJsonRejected ==
    args.split_by_day /\ args.format = "Json" =>
        /\ pc \in {"Start", "Failed"}
        /\ page = 0 /\ inflight = 0 /\ IsNone(resp)
        /\ files = NoFiles /\ dirs = {} /\ sink = "None"
        /\ pc = "Failed" /\ ~NoKeyAvailable =>
              err = ConfigErr("--split-by-day currently supports CSV format only")

\* The combination has been rejected in a run that has a key.
C12_Witness ==
    /\ args.split_by_day /\ args.format = "Json" /\ IsSome(args.api_key)
    /\ pc = "Failed" /\ err.kind = "Config" /\ err.names # "POLYGON_API_KEY"
    /\ err.names # "TWELVEDATA_API_KEY"

\* The pairs of a query under the key `apiKey`, and the other pairs, in order.
KeyPairs(q) == SeqFilter(q, {i \in 1..Len(q) : q[i][1] = "apiKey"})
OtherPairs(q) == SeqFilter(q, {i \in 1..Len(q) : q[i][1] # "apiKey"})

\* C13: after ensure_api_key_present a Url that had no apiKey parameter has
\* exactly one, with the key of the call; a Url that had some keeps them,
\* values and number, whatever key is passed; the other parameters and the
\* rest of the Url are as they were; and a second call, with any key,
\* changes nothing.
C13_EnsureKey ==
    /\ [](pc \in {"Once", "Twice"} =>
            LET before == Get(fetch_url)
                after == Get(next)
            IN  /\ after.base = before.base
                /\ OtherPairs(after.query) = OtherPairs(before.query)
                /\ KeyPairs(before.query) # <<>> =>
                        KeyPairs(after.query) = KeyPairs(before.query)
                /\ KeyPairs(before.query) = <<>> =>
                        /\ Len(KeyPairs(after.query)) = 1
                        /\ pc = "Once" => KeyPairs(after.query)[1][2] = api_key)
    /\ [][pc = "Once" => next' = next]_vars

\* A Url without apiKey, with another parameter, has been given the first
\* call's key and then a second call with a different key.
C13_Witness ==
    /\ pc = "Twice" /\ api_key = "OTHER"
    /\ KeyPairs(Get(fetch_url).query) = <<>> /\ Len(Get(fetch_url).query) = 2
    /\ KeyPairs(Get(next).query) = << <<"apiKey", ApiKey>> >>

TokenPairs(q) == SeqFilter(q, {i \in 1..Len(q) : q[i][1] = "page_token"})
PlainPairs(q) ==
    SeqFilter(q, {i \in 1..Len(q) : q[i][1] \notin {"page_token", "next_page_token"}})

\* C14: the first Twelve Data request carries no token; every later request,
\* sent or about to be sent, carries exactly one page_token, the token of the
\* page before it, and never a next_page_token; and every request built from
\* a page's token has the previous request's other parameters and that token
\* as its one page_token.
C14_OnePageToken ==
    /\ [](args.provider = "TwelveData" =>
            \A u \in {fetch_url, next} : IsSome(u) =>
                LET q == Get(u).query
                    n == IF u = fetch_url THEN page ELSE page + 1
                IN  /\ ~HasKey(q, "next_page_token")
                    /\ n = 1 => TokenPairs(q) = <<>>
                    /\ n > 1 => TokenPairs(q) = << <<"page_token", TdToken(n - 1)>> >>
                    /\ PlainPairs(q) = TwelveDataInitialUrl(api_key).query)
    /\ [][args.provider = "TwelveData" /\ pc = "Continuing" /\ IsSome(next_from_resp) =>
            /\ IsSome(next')
            /\ TokenPairs(Get(next').query) = << <<"page_token", Get(next_from_resp)>> >>
            /\ PlainPairs(Get(next').query) = PlainPairs(Get(fetch_url).query)]_vars

\* The third request of a Twelve Data run is out, with the second page's
\* token in place of the first page's.
C14_Witness ==
    /\ args.provider = "TwelveData" /\ pc = "Fetching" /\ page = 3
    /\ TokenPairs(Get(fetch_url).query) = << <<"page_token", TdToken(2)>> >>
    /\ TdToken(2) # TdToken(1)

\* C16: Ok(()) is returned only after at least one page, every requested
\* page having been answered, decoded and taken by the sink without error and
\* the last one carrying no continuation; the run then prints one notice,
\* "No data returned" if no page held a bar and a "Saved" line if one did;
\* a failed run returns its error and prints no notice.
C16_SuccessReporting ==
    /\ pc \in {"Finalize", "Done"} =>
          /\ page >= 1 /\ applied = page /\ inflight = 0
          /\ err = NoErr /\ IsNone(next)
    /\ pc = "Finalize" => IsNone(next_from_resp)
    /\ IsSome(notice) <=> pc = "Done"
    /\ pc = "Done" =>
          /\ decoded = <<>> <=> Get(notice) = "No data returned"
          /\ decoded # <<>> <=>
                Get(notice) = (IF args.split_by_day THEN "Saved per-day CSV files"
                               ELSE "Saved to")
    /\ pc = "Failed" => err # NoErr /\ IsNone(notice)

\* A run of two pages, both without bars, has ended with Ok(()).
C16_Witness ==
    /\ pc = "Done" /\ page = 2 /\ decoded = <<>>
    /\ notice = Some("No data returned") /\ files = NoFiles

\* C17: when a single-file CSV run with the header has ended with Ok(()) and
\* has decoded a bar, its output file is the header and then the row of every
\* decoded bar, page after page and in each page's order, each once (with no
\* bar decoded there is no file); one page of one bar with a volume gives two
\* lines, the second with a volume field that is not empty.
C17_CsvRowsInOrder ==
    pc = "Done" /\ args.format = "Csv" /\ ~args.split_by_day /\ ~args.no_header =>
        /\ decoded = <<>> => out_path \notin DOMAIN files
        /\ decoded # <<>> =>
              /\ out_path \in DOMAIN files
              /\ Len(files[out_path]) = Len(decoded) + 1
              /\ files[out_path][1] = Header
              /\ \A i \in 1..Len(decoded) :
                    files[out_path][i + 1] = CsvRow(Ticker, decoded[i])
        /\ page = 1 /\ Len(decoded) = 1 /\ IsSome(decoded[1].v) =>
              /\ Len(files[out_path]) = 2
              /\ files[out_path][2].tok = "row"
              /\ IsSome(files[out_path][2].volume)

\* Two bars of the first page and one of the third, an empty page between
\* them, have been written to one file of four lines.
C17_Witness ==
    /\ pc = "Done" /\ args.format = "Csv" /\ ~args.split_by_day /\ ~args.no_header
    /\ page = 3 /\ Len(decoded) = 3
    /\ BarPage(decoded[1]) = 1 /\ BarPage(decoded[2]) = 1 /\ BarPage(decoded[3]) = 3
    /\ Len(files[out_path]) = 4

\* output/{year}/{month}/{ticker}_{year}-{month}-{day}.csv
DayPath(d) == <<"output", d.year, d.month, [ticker |-> Ticker, date |-> d, ext |-> "csv"]>>
\* The bars of a sequence that fall on day d, in order.
BarsOfDay(rs, d) == SeqFilter(rs, {i \in 1..Len(rs) : rs[i].t.date = Some(d)})
\* The days of the bars of a sequence that have one.
DaysOf(rs) == {Get(rs[i].t.date) : i \in {j \in 1..Len(rs) : IsSome(rs[j].t.date)}}

\* C18: in a split-by-day run every row on disk is in the file of its own
\* UTC day, under output/{year}/{month}; the single-file path is never made;
\* a file holds at most one header, as its first line and only without
\* --no-header; and once a batch is written the files are exactly those of
\* the days of the decoded bars, each with its day's bars in decoding order.
C18_SplitRouting ==
    args.split_by_day =>
        /\ out_path \notin DOMAIN files
        /\ \A f \in DOMAIN files :
              /\ Parent(f) \in dirs
              /\ \A j \in 1..Len(files[f]) :
                    LET t == files[f][j]
                    IN  /\ t.tok = "row" =>
                              t.timestamp.formatted /\ f = DayPath(t.timestamp.date)
                        /\ t.tok = "header" => j = 1 /\ ~args.no_header
                        /\ t.tok \in {"row", "header"}
              /\ ~args.no_header => files[f][1] = Header
        /\ pc \in {"Continuing", "Delaying", "LoopTop", "Finalize", "Done"} =>
              /\ DOMAIN files = {DayPath(d) : d \in DaysOf(decoded)}
              /\ \A d \in DaysOf(decoded) :
                    BarTokens(files[DayPath(d)]) = CsvRows(Ticker, BarsOfDay(decoded, d))

\* One page whose bars fall on two days has been written to two files.
C18_Witness ==
    /\ args.split_by_day /\ pc = "Done" /\ page = 1 /\ ~args.no_header
    /\ DOMAIN files = {DayPath(Day1), DayPath(Day2)}
    /\ Len(files[DayPath(Day2)]) = 3

\* The JSON objects on disk.
ObjectsOnDisk ==
    UNION {{files[p][j] : j \in {i \in 1..Len(files[p]) : files[p][i].tok = "obj"}} :
                p \in DOMAIN files}

\* C19 as claimed: the objects written for Twelve Data have no vw and no n
\* key.
C19_Original ==
    args.provider = "TwelveData" =>
        \A t \in ObjectsOnDisk : "vw" \notin DOMAIN t /\ "n" \notin DOMAIN t

\* C19: every object written has the vw and the n key; in the objects
\* written for Twelve Data, which supplies neither, both are null, and in
\* those written for Polygon they are null exactly when the bar came without
\* them.
C19_NullNotAbsent ==
    /\ \A t \in ObjectsOnDisk :
          /\ {"vw", "n"} \subseteq DOMAIN t
          /\ args.provider = "TwelveData" => t.vw = None /\ t.n = None
    /\ args.provider = "Polygon" =>
          \A i \in 1..Len(decoded) : \A t \in ObjectsOnDisk :
              t.open = JsonNum(decoded[i].o) =>
                  /\ IsSome(t.vw) <=> IsSome(decoded[i].vw)
                  /\ t.n = decoded[i].n

\* A Twelve Data bar is on disk as an object whose vw and n are null.
C19_Witness ==
    /\ args.provider = "TwelveData" /\ args.format = "Json" /\ pc = "Done"
    /\ \E t \in ObjectsOnDisk : t.vw = None /\ t.n = None /\ IsSome(t.volume)

\* The body about to be decoded is a Twelve Data payload that reports an
\* error, in lower or upper case.
TdReportsError ==
    /\ args.provider = "TwelveData" /\ pc = "Decoding"
    /\ Get(resp).readable /\ Get(resp).body.json = "td"
    /\ Get(resp).body.status \in {Some("error"), Some("ERROR")}

\* C20: decoding a Twelve Data payload whose status is "error" in either
\* letter case fails the run with the provider error that carries the
\* payload's message, or the fixed text when it has none; none of its values
\* is decoded and nothing is written, whether or not it holds values; and a
\* run that has failed with a provider error has on disk only bars of the
\* pages before.
C20_TdStatusError ==
    /\ [][TdReportsError =>
            /\ pc' = "Failed"
            /\ err'.kind = "Provider"
            /\ err'.msg = (IF IsSome(Get(resp).body.message)
                           THEN Get(Get(resp).body.message)
                           ELSE "Unknown Twelve Data error")
            /\ decoded' = decoded
            /\ files' = files /\ dirs' = dirs]_vars
    /\ [](pc = "Failed" /\ err.kind = "Provider" =>
            \A p \in DOMAIN files : \A j \in 1..Len(files[p]) :
                IsBarToken(files[p][j]) => TokenPage(files[p][j]) < page)

\* The second page of a run was an error payload without a message; the
\* first page is on disk.
C20_Witness ==
    /\ pc = "Failed" /\ err = ProviderErr("Unknown Twelve Data error")
    /\ page = 2 /\ files # NoFiles /\ Len(decoded) = 1

\* A Twelve Data value with text for its datetime that is no date, or with a
\* price or a non-empty volume that is no number.
TdValUnparsable(v) ==
    \/ v.datetime.form = "garbage"
    \/ \E f \in {v.open, v.high, v.low, v.close} : f.num = None
    \/ IsSome(v.volume) /\ Get(v.volume).text # "" /\ Get(v.volume).num = None

\* The body about to be decoded is a Twelve Data page, no error payload,
\* with such a value among its values.
TdPageHasBadValue ==
    /\ args.provider = "TwelveData" /\ pc = "Decoding"
    /\ Get(resp).readable /\ Get(resp).body.json = "td"
    /\ Get(resp).body.status \notin {Some("error"), Some("ERROR")}
    /\ IsSome(Get(resp).body.values)
    /\ \E i \in 1..Len(Get(Get(resp).body.values)) :
            TdValUnparsable(Get(Get(resp).body.values)[i])

\* C21: decoding a Twelve Data page that holds a value with an unparsable
\* datetime or number fails the run with a parse error; none of the page's
\* values is decoded, the valid ones before the bad one included, and the
\* disk is left as it was; no failed decoding of any page changes the disk,
\* and a run failed by a parse error has on disk only bars of the pages
\* before.
C21_WholePageFails ==
    /\ [][TdPageHasBadValue =>
            /\ pc' = "Failed" /\ err'.kind = "Parse"
            /\ decoded' = decoded /\ applied' = applied
            /\ files' = files /\ dirs' = dirs /\ wrote_any' = wrote_any]_vars
    /\ [][pc = "Decoding" /\ pc' = "Failed" =>
            files' = files /\ dirs' = dirs /\ decoded' = decoded]_vars
    /\ [](pc = "Failed" /\ err.kind \in {"Parse", "Decode"} =>
            /\ applied = page - 1
            /\ \A p \in DOMAIN files : \A j \in 1..Len(files[p]) :
                  IsBarToken(files[p][j]) => TokenPage(files[p][j]) < page)

\* The second page of a Twelve Data run held a value with a bad number; the
\* bar of the first page is on disk and nothing else.
C21_Witness ==
    /\ args.provider = "TwelveData" /\ pc = "Failed" /\ err = ParseErr("float")
    /\ page = 2 /\ Len(decoded) = 1 /\ files # NoFiles

\* C22: at every moment of a JSON run the output file, if there is one, is
\* `[`, the first object, and then a comma before each further object: a
\* comma stands only between two objects, an object only right after `[` or
\* after a comma, and the objects are as many as the bars the sink has taken,
\* whichever pages were empty.
C22_JsonCommas ==
    args.format = "Json" /\ out_path \in DOMAIN files =>
        LET c == files[out_path]
            n == Len(c)
        IN  /\ c[1] = Open
            /\ \A j \in 1..n :
                  /\ c[j] = Comma =>
                        /\ j > 2 /\ j < n
                        /\ c[j - 1].tok = "obj" /\ c[j + 1].tok = "obj"
                  /\ c[j].tok = "obj" => (j = 2 \/ c[j - 1] = Comma)
                  /\ c[j] = Open => j = 1
            /\ Count(c, Comma) = Len(BarTokens(c)) - 1
            /\ pc \in {"Continuing", "Delaying", "LoopTop", "Finalize", "Done"} =>
                  Len(BarTokens(c)) = Len(decoded)

\* Three pages, the second without bars: the two objects are apart by one
\* comma.
C22_Witness ==
    /\ args.format = "Json" /\ pc = "Done" /\ page = 3 /\ Len(decoded) = 2
    /\ BarPage(decoded[1]) = 1 /\ BarPage(decoded[2]) = 3
    /\ files[out_path] = <<Open, JsonObj(decoded[1]), Comma, JsonObj(decoded[2]), Close>>

\* The decoded bars whose timestamp is no UTC instant.
Dateless == {i \in 1..Len(decoded) : decoded[i].t.date = None}
\* The rows and objects on disk.
BarsOnDisk ==
    UNION {{files[p][j] : j \in {i \in 1..Len(files[p]) : IsBarToken(files[p][i])}} :
                p \in DOMAIN files}

\* C23: in split-by-day mode a bar whose timestamp is no UTC instant leaves
\* no row in any file, and a batch of such bars alone makes no file and no
\* directory and raises no error; the single-file sinks write the bar like
\* any other, with the raw number as its timestamp.
C23_DatelessBars ==
    /\ [](args.split_by_day =>
            \A t \in BarsOnDisk : t.timestamp.formatted
                                   /\ \A i \in Dateless : t.open # CsvNum(decoded[i].o))
    /\ [][args.split_by_day /\ pc = "Writing" /\ results # <<>>
            /\ (\A i \in 1..Len(results) : results[i].t.date = None) =>
                /\ files' = files /\ dirs' = dirs
                /\ pc' = "Continuing" /\ err' = NoErr]_vars
    /\ [](~args.split_by_day
            /\ pc \in {"Continuing", "Delaying", "LoopTop", "Finalize", "Done"} =>
            \A i \in Dateless :
                \E t \in BarsOnDisk :
                    /\ t.open \in {CsvNum(decoded[i].o), JsonNum(decoded[i].o)}
                    /\ t.timestamp = [formatted |-> FALSE, raw |-> decoded[i].t.raw])

\* A split-by-day run has ended with one row on disk, a second bar of the
\* same page having been dropped.
C23_Witness ==
    /\ args.split_by_day /\ pc = "Done" /\ page = 1 /\ Len(decoded) = 2
    /\ Dateless = {1}
    /\ Cardinality(BarsOnDisk) = 1

\* The body about to be decoded is a page without bars: no `results` or none
\* in it for Polygon, no `values` or none in it for Twelve Data.
EmptyPageBody ==
    /\ pc = "Decoding" /\ Get(resp).readable
    /\ \/ /\ args.provider = "Polygon" /\ Get(resp).body.json = "polygon"
          /\ Get(resp).body.results \in {None, Some(<<>>)}
       \/ /\ args.provider = "TwelveData" /\ Get(resp).body.json = "td"
          /\ Get(resp).body.status \notin {Some("error"), Some("ERROR")}
          /\ Get(resp).body.values \in {None, Some(<<>>)}

\* The continuation of the page in hand is one a request can be made of: a
\* Twelve Data token, or a Polygon next_url that is a URL.
UsableContinuation ==
    /\ IsSome(next_from_resp)
    /\ args.provider = "Polygon" => Get(next_from_resp).scheme # ""

\* C24: a page without bars decodes to an empty batch and is no error; the
\* sink takes it without making a file or a directory, without writing and
\* without changing wrote_any; and if the page has a continuation the run
\* goes to sleep with the next request ready, else it leaves the loop.
C24_EmptyPage ==
    /\ [][EmptyPageBody =>
            pc' = "Writing" /\ results' = <<>> /\ err' = NoErr /\ decoded' = decoded]_vars
    /\ [][pc = "Writing" /\ results = <<>> =>
            /\ pc' = "Continuing" /\ err' = NoErr
            /\ files' = files /\ dirs' = dirs
            /\ sink' = sink /\ wrote_any' = wrote_any]_vars
    /\ [][pc = "Continuing" /\ results = <<>> =>
            /\ UsableContinuation => pc' = "Delaying" /\ IsSome(next')
            /\ IsNone(next_from_resp) => pc' = "Finalize"
            /\ files' = files /\ wrote_any' = wrote_any]_vars
    /\ [][pc = "Delaying" => pc' = "LoopTop" /\ next' = next]_vars

\* A first page with a bar, then a page without bars and with a
\* continuation: the run sleeps before the third request, the file as the
\* first page left it.
C24_Witness ==
    /\ pc = "Delaying" /\ page = 2 /\ results = <<>> /\ IsSome(next)
    /\ Len(decoded) = 1 /\ BarPage(decoded[1]) = 1 /\ wrote_any
    /\ ~args.split_by_day /\ Len(BarTokens(files[out_path])) = 1

\* The body about to be decoded is a Twelve Data page, no error payload,
\* whose values all have numbers that parse and a datetime in the full or in
\* the date-only form.
TdPageWellFormed ==
    /\ args.provider = "TwelveData" /\ pc = "Decoding"
    /\ Get(resp).readable /\ Get(resp).body.json = "td"
    /\ Get(resp).body.status \notin {Some("error"), Some("ERROR")}
    /\ IsSome(Get(resp).body.values)
    /\ \A i \in 1..Len(Get(Get(resp).body.values)) :
            LET v == Get(Get(resp).body.values)[i]
            IN  ~TdValUnparsable(v) /\ v.datetime.form \in {"datetime", "date"}

\* C25: a Twelve Data page whose datetimes are all in the full or in the
\* date-only form decodes, each value to the bar of its datetime's UTC
\* instant; only a datetime in neither form fails the page.
C25_EitherFormDecodes ==
    [][TdPageWellFormed =>
        /\ pc' = "Writing" /\ err' = NoErr
        /\ Len(results') = Len(Get(Get(resp).body.values))
        /\ \A i \in 1..Len(results') :
              results'[i].t = Get(Get(resp).body.values)[i].datetime.ts]_vars

\* C27: a run that ends with a "Saved" notice has written the row or the
\* object of at least one bar to a file, in every sink mode, also when bars
\* of a page were dropped in split-by-day mode.
C27_SavedMeansWritten ==
    pc = "Done" /\ notice \in {Some("Saved to"), Some("Saved per-day CSV files")} =>
        BarsOnDisk # {}

\* s is the beginning of t.
IsPrefix(s, t) == Len(s) <= Len(t) /\ SubSeq(t, 1, Len(s)) = s

\* C26: in a single-file run that finds an earlier output at its path, the
\* disk stays as found while the sink is not open; the sink is opened once,
\* by the write of the first page that has bars, and the file then holds the
\* header or the bracket and that page's bars in place of the earlier
\* content; from then on the sink stays open and every step leaves what the
\* file holds at its beginning.
C26_CreatedOnce ==
    /\ [](~args.split_by_day /\ sink = "None" => files = prior /\ ~wrote_any)
    /\ [][~args.split_by_day /\ sink = "None" /\ sink' # "None" =>
            /\ pc = "Writing" /\ results # <<>> /\ decoded = results
            /\ Len(BarTokens(files'[out_path])) = Len(results)
            /\ files'[out_path][1] \in {Header, Open, CsvRow(Ticker, results[1])}
            /\ Len(files'[out_path]) <= 2 * Len(results)]_vars
    /\ [][~args.split_by_day /\ sink # "None" =>
            /\ sink' = sink
            /\ IsPrefix(files[out_path], files'[out_path])]_vars

\* A JSON run over an earlier output has ended after three pages, the second
\* empty; the file holds the run's two objects.
C26_Witness ==
    /\ ~args.split_by_day /\ args.format = "Json" /\ pc = "Done" /\ page = 3
    /\ Len(decoded) = 2 /\ BarPage(decoded[2]) = 3
    /\ prior[out_path] = <<Open, JsonObj(decoded[1]), Close>>
    /\ files[out_path] = <<Open, JsonObj(decoded[1]), Comma, JsonObj(decoded[2]), Close>>

\* The path of the first day's file.
Day1Path == DayPath(Day1)

\* C28: in a split-by-day run over an earlier output every step leaves each
\* file with what it held at its beginning, and adds no header to a file
\* that held something; no file ever holds two headers; a run that gets the
\* same bar as the earlier run ends with the day file holding its one header,
\* if any, and the row twice; whereas such a run in single-file mode ends
\* with the file holding the row once, as the earlier run left it.
C28_DayFilesAppend ==
    /\ [][args.split_by_day =>
            \A f \in DOMAIN files :
                /\ f \in DOMAIN files'
                /\ IsPrefix(files[f], files'[f])
                /\ files[f] # <<>> => Count(files'[f], Header) = Count(files[f], Header)]_vars
    /\ [](args.split_by_day =>
            \A f \in DOMAIN files :
                /\ Count(files[f], Header) <= 1
                /\ Count(files[f], Header) = 1 => files[f][1] = Header)
    /\ [](pc = "Done" /\ decoded = <<FirstBar(args.provider)>> =>
            LET row == CsvRow(Ticker, decoded[1])
                head == IF args.no_header THEN <<>> ELSE <<Header>>
            IN  /\ args.split_by_day /\ prior[Day1Path] # <<>> =>
                      files[Day1Path] = head \o <<row, row>>
                /\ args.split_by_day /\ prior[Day1Path] = <<>> =>
                      files[Day1Path] = head \o <<row>>
                /\ ~args.split_by_day => files[out_path] = prior[out_path])

\* The same download run again in split-by-day mode: the day file holds one
\* header and the row twice.
C28_Witness ==
    /\ args.split_by_day /\ ~args.no_header /\ pc = "Done" /\ page = 1
    /\ decoded = <<FirstBar(args.provider)>>
    /\ prior[Day1Path] = <<Header, CsvRow(Ticker, decoded[1])>>
    /\ files[Day1Path] = <<Header, CsvRow(Ticker, decoded[1]), CsvRow(Ticker, decoded[1])>>

\* C29: when writes to an opened sink can fail, the only file-system errors
\* a run ends with are those of making a directory and of creating or
\* opening a file; a Write step that does not end the run goes on to the
\* continuation with wrote_any, the page count and the page's continuation
\* set as if every write had landed, whatever reached the disk; the
\* continuation step sleeps before the next request or leaves the loop as
\* the page's continuation says; the closing step always ends in Done, and
\* its notice says Saved exactly when some page had bars.
C29_WriteErrorsDiscarded ==
    /\ [](err.kind = "Io" =>
            err.what \in {"Cannot create directory", "Cannot create", "Cannot open"})
    /\ [][pc = "Writing" /\ pc' # "Failed" =>
            /\ pc' = "Continuing" /\ err' = NoErr
            /\ wrote_any' = (wrote_any \/ results # <<>>)
            /\ applied' = Inc(applied)
            /\ sink' = IF args.split_by_day \/ decoded = <<>> THEN "None"
                       ELSE IF args.format = "Csv" THEN "Csv" ELSE "Json"
            /\ <<results', next_from_resp', fetch_url', next'>> =
                   <<results, next_from_resp, fetch_url, next>>]_vars
    /\ [][pc = "Continuing" /\ pc' # "Failed" =>
            /\ IsSome(next_from_resp) => pc' = "Delaying" /\ IsSome(next')
            /\ IsNone(next_from_resp) => pc' = "Finalize" /\ IsNone(next')]_vars
    /\ [][pc = "Finalize" =>
            /\ pc' = "Done" /\ err' = NoErr
            /\ notice' = Some(IF decoded = <<>> THEN "No data returned"
                              ELSE IF args.split_by_day THEN "Saved per-day CSV files"
                              ELSE "Saved to")]_vars

\* A CSV run of two pages in which the writes of the header and of the first
\* page's row failed: the second page was fetched and written, and the run
\* ended in Done saying it saved.
C29_Witness ==
    /\ ~args.split_by_day /\ args.format = "Csv" /\ ~args.no_header
    /\ pc = "Done" /\ err = NoErr /\ notice = Some("Saved to") /\ page = 2
    /\ Len(decoded) = 2 /\ BarPage(decoded[1]) = 1 /\ BarPage(decoded[2]) = 2
    /\ files[out_path] = <<CsvRow(Ticker, decoded[2])>>

====
